---- MODULE Spec2Model ----
(***************************************************************************)
(* Model of nv/session.py: the process-wide session store (_session), the  *)
(* per-view store (_views), the history module's storage that load_session *)
(* repopulates (_storage) and the session file on disk.                    *)
(*                                                                         *)
(* Python values are modelled as tagged records:                           *)
(*   [str  |-> s]   a string value (s names its content)                   *)
(*   [lit  |-> s]   any other JSON scalar or array (s is its JSON text)    *)
(*   [dict |-> d]   a dict: a sequence of entries [k |-> key, v |-> value] *)
(*                  in insertion order, keys unique                        *)
(*   [none |-> TRUE] None,  [exc |-> e] a raised exception of class e      *)
(* Dict keys are [s |-> chars] (a str, as a sequence of characters) or     *)
(* [n |-> i] (an int).                                                     *)
(***************************************************************************)
EXTENDS Integers, Sequences, FiniteSets, TLC

VARIABLES
    _BUILD_VERSION,  \* int(version()), read once at import
    _session,        \* the dict _session
    _views,          \* the defaultdict _views
    _storage,        \* nv.history._storage
    file,            \* the session file
    last,            \* the call that ended last, with what it returned
    written,         \* history of the view calls: (view, name) -> the value
                     \* set last since the view's last session_on_close
    closed           \* history of the view calls: the views closed by
                     \* session_on_close and not set since

vars == <<_BUILD_VERSION, _session, _views, _storage, file, last, written, closed>>

----
\* Values

StrV(s) == [str |-> s]
LitV(s) == [lit |-> s]
DictV(d) == [dict |-> d]
None == [none |-> TRUE]
Exc(e) == [exc |-> e]

IsStr(x) == "str" \in DOMAIN x
IsDict(x) == "dict" \in DOMAIN x
IsExc(x) == "exc" \in DOMAIN x

SKey(s) == [s |-> s]
IKey(i) == [n |-> i]
IsSKey(k) == "s" \in DOMAIN k
IsIKey(k) == "n" \in DOMAIN k

\* Python truthiness of a decoded JSON value
Truthy(x) ==
    IF IsDict(x) THEN Len(x.dict) > 0
    ELSE IF IsStr(x) THEN x.str # ""
    ELSE IF "lit" \in DOMAIN x THEN x.lit \notin {"null", "false", "0", "[]"}
    ELSE FALSE

----
\* dict operations (insertion-ordered, as Python's dict)

DictKeys(d) == {d[i].k : i \in 1..Len(d)}
DictHas(d, k) == \E i \in 1..Len(d) : d[i].k = k
DictGet(d, k) == d[CHOOSE i \in 1..Len(d) : d[i].k = k].v

\* d[k] = v
DictSet(d, k, v) ==
    IF DictHas(d, k)
    THEN [i \in 1..Len(d) |-> IF d[i].k = k THEN [k |-> k, v |-> v] ELSE d[i]]
    ELSE Append(d, [k |-> k, v |-> v])

\* dict(pairs): a later pair with an equal key replaces the value of the earlier
RECURSIVE DictFromPairs(_)
DictFromPairs(pairs) ==
    IF pairs = <<>> THEN <<>>
    ELSE LET n == Len(pairs)
         IN DictSet(DictFromPairs(SubSeq(pairs, 1, n - 1)), pairs[n].k, pairs[n].v)

\* Python's == on values: dicts compare as mappings, whatever their order
RECURSIVE PyEq(_, _)
PyEq(a, b) ==
    IF IsDict(a) /\ IsDict(b)
    THEN /\ DictKeys(a.dict) = DictKeys(b.dict)
         /\ \A k \in DictKeys(a.dict) : PyEq(DictGet(a.dict, k), DictGet(b.dict, k))
    ELSE a = b

----
\* str.isdigit, int() and str() on the characters the model uses

DecimalChars == <<"0", "1", "2", "3", "4", "5", "6", "7", "8", "9">>

IsDecimalChar(c) == \E i \in 1..Len(DecimalChars) : DecimalChars[i] = c

\* Characters str.isdigit accepts and int() rejects: digits that are not
\* decimals, such as SUPERSCRIPT TWO (U+00B2), written "sup2" here.
NonDecimalDigits == {"sup2"}

IsDigitChar(c) == IsDecimalChar(c) \/ c \in NonDecimalDigits

CharVal(c) == (CHOOSE i \in 1..Len(DecimalChars) : DecimalChars[i] = c) - 1

\* s.isdigit(): at least one character, all of them digits
isdigit(s) == Len(s) > 0 /\ \A i \in 1..Len(s) : IsDigitChar(s[i])

\* int(s) succeeds on the strings of decimal characters (of the model's alphabet)
IntParses(s) == Len(s) > 0 /\ \A i \in 1..Len(s) : IsDecimalChar(s[i])

RECURSIVE IntOfStr(_)
IntOfStr(s) ==
    IF s = <<>> THEN 0
    ELSE 10 * IntOfStr(SubSeq(s, 1, Len(s) - 1)) + CharVal(s[Len(s)])

\* str(i) for i >= 0
RECURSIVE StrOfInt(_)
StrOfInt(i) ==
    IF i < 10 THEN <<DecimalChars[i + 1]>>
    ELSE Append(StrOfInt(i \div 10), DecimalChars[(i % 10) + 1])

\* int(k) on a dict key: an int is returned as it is, a str is parsed
IntRaises(k) == IsSKey(k) /\ ~IntParses(k.s)
IntOf(k) == IF IsIKey(k) THEN k.n ELSE IntOfStr(k.s)

----
\* The codec

\* int(k) if k.isdigit() else k
HookKey(k) == IF IsSKey(k) /\ isdigit(k.s) THEN IKey(IntOf(k)) ELSE k

\* _json_object_hook_dict_str_key_to_int(x): the dict comprehension raises
\* ValueError at the first key that isdigit accepts and int rejects
_json_object_hook_dict_str_key_to_int(x) ==
    IF IsDict(x)
    THEN IF \E i \in 1..Len(x.dict) :
                IsSKey(x.dict[i].k) /\ isdigit(x.dict[i].k.s) /\ IntRaises(x.dict[i].k)
         THEN Exc("ValueError")
         ELSE DictV(DictFromPairs(
                  [i \in 1..Len(x.dict) |->
                      [k |-> HookKey(x.dict[i].k), v |-> x.dict[i].v]]))
    ELSE x

\* json.loads(content, object_hook=...) on a parsed JSON document j: a JSON
\* object is a [dict |-> pairs] whose names are strs (a name may repeat); its
\* values are decoded first, dict(pairs) is built, then the hook is applied.
RECURSIVE json_loads(_)
json_loads(j) ==
    IF IsDict(j)
    THEN LET vals == [i \in 1..Len(j.dict) |-> json_loads(j.dict[i].v)]
         IN IF \E i \in 1..Len(vals) : IsExc(vals[i])
            THEN Exc("ValueError")
            ELSE _json_object_hook_dict_str_key_to_int(
                     DictV(DictFromPairs(
                         [i \in 1..Len(j.dict) |-> [k |-> j.dict[i].k, v |-> vals[i]]])))
    ELSE j

\* json.dumps(obj), as the JSON document it writes: an int key is written as
\* the string str(key), entries in the dict's order
RECURSIVE json_dumps(_)
json_dumps(x) ==
    IF IsDict(x)
    THEN DictV([i \in 1..Len(x.dict) |->
                  [k |-> IF IsIKey(x.dict[i].k) THEN SKey(StrOfInt(x.dict[i].k.n))
                         ELSE x.dict[i].k,
                   v |-> json_dumps(x.dict[i].v)]])
    ELSE x

----
\* Names

Str_history == <<"h", "i", "s", "t", "o", "r", "y">>
Str_ex_substitute_last_pattern ==
    <<"e", "x", "_", "s", "u", "b", "s", "t", "i", "t", "u", "t", "e", "_",
      "l", "a", "s", "t", "_", "p", "a", "t", "t", "e", "r", "n">>
Str_ex_substitute_last_replacement ==
    <<"e", "x", "_", "s", "u", "b", "s", "t", "i", "t", "u", "t", "e", "_",
      "l", "a", "s", "t", "_", "r", "e", "p", "l", "a", "c", "e", "m", "e", "n", "t">>
Str_last_used_register_name ==
    <<"l", "a", "s", "t", "_", "u", "s", "e", "d", "_",
      "r", "e", "g", "i", "s", "t", "e", "r", "_", "n", "a", "m", "e">>
Str_macros == <<"m", "a", "c", "r", "o", "s">>

Str_bogus == <<"b", "o", "g", "u", "s">>

\* (no filter: the record's name bogus accepted too)
accept_keys_WithBogus ==
    { SKey(Str_history),
      SKey(Str_ex_substitute_last_pattern),
      SKey(Str_ex_substitute_last_replacement),
      SKey(Str_last_used_register_name),
      SKey(Str_macros),
      SKey(Str_bogus) }

\* the tuple accept_keys of load_session
accept_keys ==
    { SKey(Str_history),
      SKey(Str_ex_substitute_last_pattern),
      SKey(Str_ex_substitute_last_replacement),
      SKey(Str_last_used_register_name),
      SKey(Str_macros) }

\* if _BUILD_VERSION >= 4081: the session is saved on exit
SaveOnExitBuild == 4081

----
\* The session file, as open() and f.read() find it

Missing == [kind |-> "missing"]        \* open raises FileNotFoundError
Unreadable == [kind |-> "unreadable"]  \* open or read raises another OSError
Blank == [kind |-> "blank"]            \* empty or whitespace only
Malformed == [kind |-> "malformed"]    \* text that is not JSON
JsonFile(j) == [kind |-> "json", doc |-> j]

----
\* load_session

\* for _k, _v in v.items(): _storage[int(_k)] = _v, from entry i on
RECURSIVE Repopulate(_, _, _)
Repopulate(items, i, storage) ==
    IF i > Len(items) THEN [storage |-> storage, exc |-> None]
    ELSE IF IntRaises(items[i].k)
    THEN [storage |-> storage, exc |-> Exc("ValueError")]
    ELSE Repopulate(items, i + 1,
                    DictSet(storage, IKey(IntOf(items[i].k)), items[i].v))

\* (the loop with or without its _storage.clear())
RECURSIVE LoadItemsVariant(_, _, _, _, _)
LoadItemsVariant(items, i, session, storage, clear) ==
    IF i > Len(items) THEN [session |-> session, storage |-> storage, exc |-> None]
    ELSE LET k == items[i].k
             v == items[i].v
             cleared == IF clear THEN <<>> ELSE storage
         IN IF k \notin accept_keys
            THEN LoadItemsVariant(items, i + 1, session, storage, clear)
            ELSE IF k = SKey(Str_history)
            THEN IF ~IsDict(v)
                 THEN [session |-> session, storage |-> cleared,
                       exc |-> Exc("AttributeError")]
                 ELSE LET r == Repopulate(v.dict, 1, cleared)
                      IN IF IsExc(r.exc)
                         THEN [session |-> session, storage |-> r.storage, exc |-> r.exc]
                         ELSE LoadItemsVariant(items, i + 1, session, r.storage, clear)
            ELSE LoadItemsVariant(items, i + 1, DictSet(session, k, v), storage, clear)

\* (the history branch without _storage.clear())
LoadItems_NoClear(items, i, session, storage) ==
    LoadItemsVariant(items, i, session, storage, FALSE)

\* (a _session.clear() before the loop)
LoadItems_ClearsFirst(items, i, session, storage) ==
    LoadItemsVariant(items, i, IF i = 1 THEN <<>> ELSE session, storage, TRUE)

\* for k, v in session.items(): ..., from entry i on
RECURSIVE LoadItems(_, _, _, _)
LoadItems(items, i, session, storage) ==
    IF i > Len(items) THEN [session |-> session, storage |-> storage, exc |-> None]
    ELSE LET k == items[i].k
             v == items[i].v
         IN IF k \notin accept_keys
            THEN LoadItems(items, i + 1, session, storage)
            ELSE IF k = SKey(Str_history)
            THEN \* _storage.clear(), then v.items()
                 IF ~IsDict(v)
                 THEN [session |-> session, storage |-> <<>>,
                       exc |-> Exc("AttributeError")]
                 ELSE LET r == Repopulate(v.dict, 1, <<>>)
                      IN IF IsExc(r.exc)
                         THEN [session |-> session, storage |-> r.storage, exc |-> r.exc]
                         ELSE LoadItems(items, i + 1, session, r.storage)
            ELSE LoadItems(items, i + 1, DictSet(session, k, v), storage)

\* (a load that starts from empty stores)
Unchanged_Cleared(session, storage, exc) ==
    [session |-> <<>>, storage |-> <<>>, exc |-> exc, decoded |-> None]

\* load_session ends before its loop: the stores are as they were
Unchanged(session, storage, exc) ==
    [session |-> session, storage |-> storage, exc |-> exc, decoded |-> None]

\* The body of load_session on file f: the stores it leaves, the exception the
\* try block ended with (exc), the value of the local `session` (decoded)
LoadBody(f, session, storage) ==
    IF f.kind = "missing" THEN Unchanged(session, storage, Exc("FileNotFoundError"))
    ELSE IF f.kind = "unreadable" THEN Unchanged(session, storage, Exc("OSError"))
    ELSE IF f.kind = "blank" THEN Unchanged(session, storage, None)
    ELSE IF f.kind = "malformed" THEN Unchanged(session, storage, Exc("ValueError"))
    ELSE LET decoded == json_loads(f.doc)
         IN IF IsExc(decoded) THEN Unchanged(session, storage, decoded)
            ELSE IF ~Truthy(decoded)
            THEN [Unchanged(session, storage, None) EXCEPT !.decoded = decoded]
            ELSE IF ~IsDict(decoded)
            THEN [Unchanged(session, storage, Exc("AttributeError"))
                     EXCEPT !.decoded = decoded]
            ELSE LET r == LoadItems(decoded.dict, 1, session, storage)
                 IN [session |-> r.session, storage |-> r.storage,
                     exc |-> r.exc, decoded |-> decoded]

\* The except clauses: FileNotFoundError passes, any other Exception is
\* printed by traceback.print_exc(); nothing is raised again
LoadTraced(exc) == IsExc(exc) /\ exc # Exc("FileNotFoundError")

\* (the clause `except Exception` left out)
LoadRaised_NoCatchAll(exc) == IF exc = Exc("FileNotFoundError") THEN None ELSE exc

\* what load_session raises to its caller: every exception of the try block is
\* an Exception, and both clauses end without raising
LoadRaised(exc) == None

----
\* save_session

\* content = json.dumps(_session), written over the file. io is what the file
\* system does with the write, whoever calls save_session: "ok", "open_fails"
\* (open raises, the file is as it was) or "write_fails" (open truncated the
\* file, f.write raises)
IOOutcomes == {"ok", "open_fails", "write_fails"}

\* (a save that writes the names of accept_keys only)
SaveBody_Filtered(io, f, session) ==
    IF io = "ok"
    THEN [file |-> JsonFile(json_dumps(DictV(
                      SelectSeq(session, LAMBDA e : e.k \in accept_keys)))),
          exc |-> None]
    ELSE IF io = "open_fails" THEN [file |-> f, exc |-> Exc("OSError")]
    ELSE [file |-> Blank, exc |-> Exc("OSError")]

SaveBody(io, f, session) ==
    IF io = "ok" THEN [file |-> JsonFile(json_dumps(DictV(session))), exc |-> None]
    ELSE IF io = "open_fails" THEN [file |-> f, exc |-> Exc("OSError")]
    ELSE [file |-> Blank, exc |-> Exc("OSError")]

----
\* The calls. `last` is the call that ended last: its arguments, what it
\* returned (ret), the exception it raised to its caller (raised, None when it
\* returned), whether traceback.print_exc() ran (traced), how many times it
\* ran save_session (saves) and, for load_session, its local `session` (decoded).

NoCall ==
    [op |-> "import", view |-> 0, name |-> <<>>, value |-> None, default |-> None,
     persist |-> FALSE, ret |-> None, raised |-> None, traced |-> FALSE,
     saves |-> 0, decoded |-> None]

\* _session = {}, _views = defaultdict(dict), _BUILD_VERSION = int(version()):
\* the module is imported by a starting process; the file is what the last
\* process left
Import ==
    /\ _session' = <<>>
    /\ _views' = <<>>
    /\ _storage' = <<>>
    /\ last' = NoCall
    /\ written' = <<>>
    /\ closed' = {}
    /\ UNCHANGED <<_BUILD_VERSION, file>>

load_session ==
    LET r == LoadBody(file, _session, _storage)
    IN /\ _session' = r.session
       /\ _storage' = r.storage
       /\ last' = [NoCall EXCEPT !.op = "load_session",
                                 !.raised = LoadRaised(r.exc),
                                 !.traced = LoadTraced(r.exc),
                                 !.decoded = r.decoded]
       /\ UNCHANGED <<_BUILD_VERSION, _views, file, written, closed>>

save_session(io) ==
    LET r == SaveBody(io, file, _session)
    IN /\ file' = r.file
       /\ last' = [NoCall EXCEPT !.op = "save_session", !.raised = r.exc,
                                 !.saves = 1]
       /\ UNCHANGED <<_BUILD_VERSION, _session, _views, _storage, written, closed>>

\* (the threshold compared with > in place of >=; no test of the build)
ExitSaves_After(build) == build > SaveOnExitBuild
ExitSaves_Always(build) == TRUE

\* session_on_exit is save_session from build 4081 on, and pass before
ExitSaves(build) == build >= SaveOnExitBuild

session_on_exit ==
    /\ IF ExitSaves(_BUILD_VERSION)
       THEN \E io \in IOOutcomes :
               LET r == SaveBody(io, file, _session)
               IN /\ file' = r.file
                  /\ last' = [NoCall EXCEPT !.op = "session_on_exit", !.raised = r.exc,
                                            !.saves = 1]
       ELSE /\ file' = file
            /\ last' = [NoCall EXCEPT !.op = "session_on_exit"]
    /\ UNCHANGED <<_BUILD_VERSION, _session, _views, _storage, written, closed>>

get_session_value(name, default) ==
    /\ last' = [NoCall EXCEPT !.op = "get_session_value", !.name = name,
                              !.default = default,
                              !.ret = IF DictHas(_session, SKey(name))
                                      THEN DictGet(_session, SKey(name))
                                      ELSE default]
    /\ UNCHANGED <<_BUILD_VERSION, _session, _views, _storage, file, written, closed>>

\* (the build test inverted; the build test left out)
SetSaves_NewBuilds(persist, build) == persist /\ build >= SaveOnExitBuild
SetSaves_AnyBuild(persist, build) == persist

\* if persist and _BUILD_VERSION < 4081: save_session()
SetSaves(persist, build) == persist /\ build < SaveOnExitBuild

set_session_value(name, value, persist) ==
    /\ _session' = DictSet(_session, SKey(name), value)
    /\ IF SetSaves(persist, _BUILD_VERSION)
       THEN \E io \in IOOutcomes :
               LET r == SaveBody(io, file, _session')
               IN /\ file' = r.file
                  /\ last' = [NoCall EXCEPT !.op = "set_session_value", !.name = name,
                                            !.value = value, !.persist = persist,
                                            !.raised = r.exc,
                                            !.saves = 1]
       ELSE /\ file' = file
            /\ last' = [NoCall EXCEPT !.op = "set_session_value", !.name = name,
                                      !.value = value, !.persist = persist]
    /\ UNCHANGED <<_BUILD_VERSION, _views, _storage, written, closed>>

\* _views is a defaultdict(dict): a function from the view ids that have an
\* entry to that entry, a function from names to values.

\* _views[id]: a defaultdict inserts the default, dict(), under a missing key
ViewsAfterLookup(views, id) ==
    IF id \in DOMAIN views THEN views ELSE views @@ (id :> <<>>)

\* (a read that looks the name up in whatever view has it)
ViewRead_AnyView(views, view, name, default) ==
    IF \E v \in DOMAIN views : name \in DOMAIN views[v]
    THEN views[CHOOSE v \in DOMAIN views : name \in DOMAIN views[v]][name]
    ELSE default

\* return _views[view.id()][name], or default on a KeyError
ViewRead(views, view, name, default) ==
    IF name \in DOMAIN views[view] THEN views[view][name] ELSE default

get_session_view_value(view, name, default) ==
    LET looked == ViewsAfterLookup(_views, view)
    IN /\ _views' = looked
       /\ last' = [NoCall EXCEPT !.op = "get_session_view_value", !.view = view,
                                 !.name = name, !.default = default,
                                 !.ret = ViewRead(looked, view, name, default)]
       /\ UNCHANGED <<_BUILD_VERSION, _session, _storage, file, written, closed>>

\* (the value stored in _session as well)
set_session_view_value_Global(view, name, value) ==
    LET looked == ViewsAfterLookup(_views, view)
    IN /\ _views' = [looked EXCEPT ![view] =
                        [n \in DOMAIN looked[view] \cup {name} |->
                            IF n = name THEN value ELSE looked[view][n]]]
       /\ _session' = DictSet(_session, SKey(name), value)
       /\ last' = [NoCall EXCEPT !.op = "set_session_view_value", !.view = view,
                                 !.name = name, !.value = value]
       /\ written' = [p \in DOMAIN written \cup {<<view, name>>} |->
                         IF p = <<view, name>> THEN value ELSE written[p]]
       /\ closed' = closed \ {view}
       /\ UNCHANGED <<_BUILD_VERSION, _storage, file>>

set_session_view_value(view, name, value) ==
    LET looked == ViewsAfterLookup(_views, view)
    IN /\ _views' = [looked EXCEPT ![view] =
                        [n \in DOMAIN looked[view] \cup {name} |->
                            IF n = name THEN value ELSE looked[view][n]]]
       /\ last' = [NoCall EXCEPT !.op = "set_session_view_value", !.view = view,
                                 !.name = name, !.value = value]
       /\ written' = [p \in DOMAIN written \cup {<<view, name>>} |->
                         IF p = <<view, name>> THEN value ELSE written[p]]
       /\ closed' = closed \ {view}
       /\ UNCHANGED <<_BUILD_VERSION, _session, _storage, file>>

\* (_views.clear() in place of the del)
ViewsAfterClose_All(views, id) == <<>>

\* del _views[view.id()]; a KeyError is passed over
ViewsAfterClose(views, id) == [v \in DOMAIN views \ {id} |-> views[v]]

session_on_close(view) ==
    /\ _views' = ViewsAfterClose(_views, view)
    /\ last' = [NoCall EXCEPT !.op = "session_on_close", !.view = view]
    /\ written' = [p \in {q \in DOMAIN written : q[1] # view} |-> written[p]]
    /\ closed' = closed \cup {view}
    /\ UNCHANGED <<_BUILD_VERSION, _session, _storage, file>>

----
\* Inputs

Builds == {SaveOnExitBuild - 1, SaveOnExitBuild}

\* Number of view ids the host hands out
MaxView == 2
ViewIds == 1..MaxView
ViewNames == {<<"k">>, <<"j">>}
ViewValues == {StrV("v"), StrV("w")}
Defaults == {StrV("d")}

Str_tmp == <<"t", "m", "p">>

Entry(k, v) == [k |-> k, v |-> v]

\* {"1": "a"}, {"q": "b"}, {1: "a"}
Dict_s1 == DictV(<<Entry(SKey(<<"1">>), StrV("a"))>>)
Dict_sq == DictV(<<Entry(SKey(<<"q">>), StrV("b"))>>)
Dict_i1 == DictV(<<Entry(IKey(1), StrV("a"))>>)

\* The (name, value) pairs set_session_value is called with: macros recorded
\* in register 1 or in register q, and a name outside accept_keys
SessionInputs ==
    { <<Str_macros, Dict_s1>>, <<Str_macros, Dict_sq>>, <<Str_tmp, StrV("a")>> }

SessionNames == {p[1] : p \in SessionInputs}

\* The file a first process finds: none, or one an earlier version left
InitFiles ==
    { Missing,
      JsonFile(DictV(<<Entry(SKey(Str_bogus), LitV("1")),
                       Entry(SKey(Str_macros), Dict_sq)>>)) }

----
\* The session: any calls in any order, the process restarting at any time

Init ==
    /\ _BUILD_VERSION \in Builds
    /\ _session = <<>>
    /\ _views = <<>>
    /\ _storage = <<>>
    /\ file \in InitFiles
    /\ last = NoCall
    /\ written = <<>>
    /\ closed = {}

Next ==
    \/ Import
    \/ load_session
    \/ \E io \in IOOutcomes : save_session(io)
    \/ session_on_exit
    \/ \E name \in SessionNames, default \in Defaults : get_session_value(name, default)
    \/ \E p \in SessionInputs, persist \in BOOLEAN :
          set_session_value(p[1], p[2], persist)
    \/ \E view \in ViewIds, default \in Defaults :
          get_session_view_value(view, <<"k">>, default)
    \/ \E view \in ViewIds : set_session_view_value(view, <<"k">>, StrV("v"))
    \/ \E view \in ViewIds : session_on_close(view)

Spec == Init /\ [][Next]_vars

----
\* The per-view store alone: every view id, name and value

NextDoc ==
    \/ \E view \in ViewIds, name \in ViewNames, default \in Defaults :
          get_session_view_value(view, name, default)
    \/ \E view \in ViewIds, name \in ViewNames, value \in ViewValues :
          set_session_view_value(view, name, value)
    \/ \E view \in ViewIds : session_on_close(view)

SpecDoc == Init /\ [][NextDoc]_vars

----
\* load_session alone, on every file of a bounded shape

\* Number of top-level fields of a JSON object in the file
MaxFields == 2

\* {"3": "x"}, {"3": "x", "03": "y"}, {"f": "y"}, {"3": "x", "f": "y"},
\* {"sup2": "x"}, {"f": {"3": "x"}}
Json_3 == DictV(<<Entry(SKey(<<"3">>), StrV("x"))>>)
Json_3_03 == DictV(<<Entry(SKey(<<"3">>), StrV("x")), Entry(SKey(<<"0", "3">>), StrV("y"))>>)
Json_f == DictV(<<Entry(SKey(<<"f">>), StrV("y"))>>)
Json_3_f == DictV(<<Entry(SKey(<<"3">>), StrV("x")), Entry(SKey(<<"f">>), StrV("y"))>>)
Json_sup2 == DictV(<<Entry(SKey(<<"sup2">>), StrV("x"))>>)
Json_f_3 == DictV(<<Entry(SKey(<<"f">>), Json_3)>>)

FieldNames == {Str_history, Str_macros, Str_bogus, <<"7">>}
FieldValues ==
    {LitV("1"), DictV(<<>>), Json_3, Json_3_03, Json_f, Json_3_f, Json_sup2, Json_f_3}
Fields == {Entry(SKey(n), v) : n \in FieldNames, v \in FieldValues}

\* The JSON objects of at most MaxFields fields (a name may repeat)
JsonObjects == UNION {[1..m -> Fields] : m \in 0..MaxFields}

LoadFiles ==
    {Missing, Unreadable, Blank, Malformed, JsonFile(LitV("1")), JsonFile(LitV("null"))}
        \cup {JsonFile(DictV(o)) : o \in JsonObjects}

\* What the process holds when load_session is called: nothing, or what
\* earlier calls and the history module left
Stores_tmp_macros ==
    <<Entry(SKey(Str_tmp), StrV("a")), Entry(SKey(Str_macros), Dict_sq)>>
Storage_old == <<Entry(IKey(9), StrV("old"))>>

InitLoad ==
    /\ _BUILD_VERSION = SaveOnExitBuild
    /\ \/ _session = <<>> /\ _storage = <<>>
       \/ _session = Stores_tmp_macros /\ _storage = Storage_old
    /\ _views = <<>>
    /\ file \in LoadFiles
    /\ last = NoCall
    /\ written = <<>>
    /\ closed = {}

NextLoad == load_session

SpecLoad == InitLoad /\ [][NextLoad]_vars

----
\* Save, restart, load: every store of allow-listed names

Dict_i1_i2 == DictV(<<Entry(IKey(1), StrV("a")), Entry(IKey(2), StrV("b"))>>)
Dict_q_s1 == DictV(<<Entry(SKey(<<"q">>), Dict_s1)>>)

\* macros by register name, the history by index, the plain strings
RoundTripFields ==
    { Entry(SKey(Str_macros), Dict_s1), Entry(SKey(Str_macros), Dict_sq),
      Entry(SKey(Str_macros), Dict_q_s1),
      Entry(SKey(Str_history), Dict_i1), Entry(SKey(Str_history), Dict_i1_i2),
      Entry(SKey(Str_last_used_register_name), StrV("a")),
      Entry(SKey(Str_ex_substitute_last_pattern), StrV("b")) }

RoundTripStores ==
    {DictFromPairs(o) : o \in UNION {[1..m -> RoundTripFields] : m \in 0..MaxFields}}

InitRoundTrip ==
    /\ _BUILD_VERSION \in Builds
    /\ _session \in RoundTripStores
    /\ _views = <<>>
    /\ _storage = <<>>
    /\ file = Missing
    /\ last = NoCall
    /\ written = <<>>
    /\ closed = {}

NextRoundTrip ==
    \/ \E io \in IOOutcomes : save_session(io)
    \/ Import
    \/ load_session

SpecRoundTrip == InitRoundTrip /\ [][NextRoundTrip]_vars

----
\* Properties of the per-view store (SpecDoc)

\* C1: get_session_view_value(view, name, default) returns the value set last
\* for exactly that (view, name) since the view's last session_on_close, and
\* the caller's default when there is none: a value set for another view or
\* another name, or before the close, is never returned.
C1_ViewReadReturnsLastWrite ==
    last.op = "get_session_view_value" =>
        last.ret = IF <<last.view, last.name>> \in DOMAIN written
                   THEN written[<<last.view, last.name>>]
                   ELSE last.default

\* C1 witness: a read of a view returned the value set for it while another
\* view holds a different value under the same name
C1_Witness ==
    /\ last.op = "get_session_view_value"
    /\ last.ret # last.default
    /\ \E v \in DOMAIN _views \ {last.view} :
          /\ last.name \in DOMAIN _views[v]
          /\ _views[v][last.name] # last.ret

\* C10: an entry of _views is created only by set_session_view_value; a
\* get_session_view_value for a view that has no entry returns the default and
\* leaves the set of views that have an entry as it was.
C10_ReadCreatesNoEntry ==
    [][ /\ (DOMAIN _views' \subseteq DOMAIN _views
               \/ last'.op = "set_session_view_value")
        /\ (last'.op = "get_session_view_value" /\ last'.view \notin DOMAIN _views)
               => (last'.ret = last'.default /\ DOMAIN _views' = DOMAIN _views) ]_vars

----
\* Properties of the persistence policy (Spec)

Encoded(session) == JsonFile(json_dumps(DictV(session)))

\* C2: before build 4081, when set_session_value(name, value, persist=True)
\* returns without raising, the file has been rewritten by that call and holds
\* the encoding of the whole of _session, name mapped to value included.
C2_EagerWriteThrough ==
    (/\ last.op = "set_session_value"
     /\ last.persist
     /\ _BUILD_VERSION < SaveOnExitBuild
     /\ last.raised = None)
        => /\ last.saves = 1
           /\ file = Encoded(_session)
           /\ \E i \in 1..Len(file.doc.dict) :
                 /\ file.doc.dict[i].k = SKey(last.name)
                 /\ file.doc.dict[i].v = json_dumps(last.value)

\* C2 witness: such a call has returned with two names in _session, one of
\* them set without persist
C2_Witness ==
    /\ last.op = "set_session_value"
    /\ last.persist
    /\ _BUILD_VERSION < SaveOnExitBuild
    /\ last.raised = None
    /\ last.name = Str_macros
    /\ DictHas(_session, SKey(Str_tmp))
    /\ file = Encoded(_session)

\* C3: from build 4081 on, no call other than session_on_exit or save_session
\* itself changes the file: whatever set_session_value is called with, persist
\* included, the file stays what it was.
C3_DeferredNoWrite ==
    [][ (/\ _BUILD_VERSION >= SaveOnExitBuild
         /\ last'.op \notin {"session_on_exit", "save_session"})
            => (file' = file /\ last'.saves = 0) ]_vars

\* C3 witness: set_session_value(..., persist=True) has returned on build 4081
\* with two names in _session and there is still no file
C3_Witness ==
    /\ _BUILD_VERSION >= SaveOnExitBuild
    /\ last.op = "set_session_value"
    /\ last.persist
    /\ Len(_session) = 2
    /\ file = Missing

\* C4: from build 4081 on, one session_on_exit runs save_session exactly once,
\* and when the write succeeds the file holds the encoding of the whole of
\* _session as it is then, names set without persist included.
C4_ExitSavesOnce ==
    (last.op = "session_on_exit" /\ _BUILD_VERSION >= SaveOnExitBuild)
        => /\ last.saves = 1
           /\ last.raised = None => file = Encoded(_session)

\* C4 witness: session_on_exit returned on build 4081 and the file holds two
\* names, tmp (never set with persist, and outside accept_keys) among them
C4_Witness ==
    /\ last.op = "session_on_exit"
    /\ _BUILD_VERSION >= SaveOnExitBuild
    /\ last.raised = None
    /\ Len(_session) = 2
    /\ DictHas(_session, SKey(Str_tmp))
    /\ file = Encoded(_session)

----
\* Properties of load_session (SpecLoad)

\* the top-level names of the JSON object in file f
FileNames(f) ==
    IF f.kind = "json" /\ IsDict(f.doc) THEN DictKeys(f.doc.dict) ELSE {}

\* the allow-list of the session record
AllowList ==
    { SKey(n) : n \in { Str_history, Str_ex_substitute_last_pattern,
                        Str_ex_substitute_last_replacement,
                        Str_last_used_register_name, Str_macros } }

\* C5: load_session adds to _session only names of the allow-list: a name of
\* the record outside it is a key of _session after the call only if it was
\* one before, and the call raises nothing.
C5_LoadFiltersNames ==
    [][ last'.op = "load_session" =>
            /\ \A k \in DictKeys(_session') :
                  k \in DictKeys(_session) \/ (k \in AllowList /\ k \in FileNames(file))
            /\ last'.raised = None ]_vars

\* C5 witness: a record with the names bogus and macros was loaded: macros is
\* in _session, bogus is not, nothing was raised or traced
C5_Witness ==
    /\ last.op = "load_session"
    /\ {SKey(Str_bogus), SKey(Str_macros)} \subseteq FileNames(file)
    /\ DictHas(_session, SKey(Str_macros))
    /\ ~DictHas(_session, SKey(Str_bogus))
    /\ ~last.traced

\* C6: load_session on a missing file, a blank file or a file that is not JSON
\* leaves _session and the history storage as they were and raises nothing.
C6_LoadNothingToLoad ==
    [][ (last'.op = "load_session" /\ file.kind \in {"missing", "blank", "malformed"})
            => /\ _session' = _session
               /\ _storage' = _storage
               /\ last'.raised = None ]_vars

\* C6 witness: load_session has returned on a file that is not JSON, with the
\* diagnostic printed and the stores still holding what they held
C6_Witness ==
    /\ last.op = "load_session"
    /\ file.kind = "malformed"
    /\ last.traced
    /\ _session = Stores_tmp_macros
    /\ _storage = Storage_old

\* C7: load_session raises nothing to its caller, whatever the file holds.
C7_LoadNeverRaises ==
    last.op = "load_session" => last.raised = None

\* C7 witness: load_session has returned after an exception on a record that
\* parsed as JSON (a top-level value that is no object, a history that is no
\* mapping or has a key that is no integer)
C7_Witness ==
    /\ last.op = "load_session"
    /\ last.traced
    /\ last.decoded # None
    /\ last.raised = None

----
\* Properties of the codec

\* a key that is a string of decimal digits becomes its integer value, any
\* other key stays as it is
IsDecimalStr(k) == IsSKey(k) /\ Len(k.s) > 0 /\ \A i \in 1..Len(k.s) : IsDecimalChar(k.s[i])
Promoted(k) == IF IsDecimalStr(k) THEN IKey(IntOfStr(k.s)) ELSE k

\* d is the JSON value j with the keys of every mapping promoted, at every
\* depth, and nothing else changed (of two keys of a mapping that promote to
\* the same integer, either may have given its value)
RECURSIVE IsPromotionOf(_, _)
IsPromotionOf(d, j) ==
    IF IsDict(j)
    THEN /\ IsDict(d)
         /\ DictKeys(d.dict) = {Promoted(k) : k \in DictKeys(j.dict)}
         /\ \A i \in 1..Len(d.dict) :
               \E n \in 1..Len(j.dict) :
                  /\ Promoted(j.dict[n].k) = d.dict[i].k
                  /\ IsPromotionOf(d.dict[i].v, j.dict[n].v)
    ELSE d = j

\* session and storage hold what store held: every name but history is in
\* session with an equal value, the entries of history are the storage
Restored(store, session, storage) ==
    /\ \A k \in DictKeys(store) \ {SKey(Str_history)} :
          DictHas(session, k) /\ PyEq(DictGet(session, k), DictGet(store, k))
    /\ DictHas(store, SKey(Str_history)) =>
          PyEq(DictV(storage), DictGet(store, SKey(Str_history)))

\* C8: round trip. For every store whose names are all in accept_keys (plain
\* strings, macros by register name, "1" included, the history by index), a
\* load_session into empty stores of the file save_session wrote for it gives
\* every name but history back with an equal value and the history entries to
\* the history storage.
C8_RoundTrip ==
    [][ \A store \in RoundTripStores :
           (/\ file = Encoded(store)
            /\ _session = <<>>
            /\ _storage = <<>>
            /\ last'.op = "load_session")
               => Restored(store, _session', _storage') ]_vars

\* C9: the decoded record is the file's JSON value with every key that is a
\* string of decimal digits promoted to its integer value, in every mapping at
\* every depth, and every other key and every value as it was.
C9_DecodePromotesDigitKeys ==
    (last.op = "load_session" /\ file.kind = "json")
        => IsPromotionOf(last.decoded, file.doc)

----
\* Further properties of the per-view store and of the persistence policy

ViewCalls == {"get_session_view_value", "set_session_view_value", "session_on_close"}

\* C11: a view that session_on_close closed and that set_session_view_value
\* has not written since has no entry in _views, whatever calls (reads of that
\* view included) came after the close.
C11_ClosedHasNoEntry ==
    \A v \in closed : v \notin DOMAIN _views

\* C12: session_on_close(view) raises nothing and removes the entry of that
\* view only: on a view that has no entry, and so on a second call in a row,
\* it changes nothing; the entries of the other views, _session, the history
\* storage and the file are as they were.
C12_CloseIdempotentLocal ==
    [][ last'.op = "session_on_close" =>
            /\ last'.raised = None
            /\ DOMAIN _views' = DOMAIN _views \ {last'.view}
            /\ \A u \in DOMAIN _views' : _views'[u] = _views[u]
            /\ last'.view \notin DOMAIN _views => _views' = _views
            /\ (last.op = "session_on_close" /\ last.view = last'.view)
                  => _views' = _views
            /\ _session' = _session
            /\ _storage' = _storage
            /\ file' = file ]_vars

\* C12 witness: session_on_close has returned twice in a row on a view, while
\* another view holds a value, _session holds a name and there is a file
C12_Witness ==
    /\ last.op = "session_on_close"
    /\ last.view \in closed
    /\ last.view \notin DOMAIN _views
    /\ \E u \in DOMAIN _views : <<"k">> \in DOMAIN _views[u]
    /\ Len(_session) > 0
    /\ file.kind = "json"

\* C13: a failing write never reaches the host: session_on_exit and
\* set_session_value return without raising whatever the file system does.
C13_SaveFailureNeverRaises ==
    last.op \in {"session_on_exit", "set_session_value"} => last.raised = None

\* j holds the value val, at any depth
RECURSIVE Occurs(_, _)
Occurs(j, val) ==
    \/ j = val
    \/ IsDict(j) /\ \E i \in 1..Len(j.dict) : Occurs(j.dict[i].v, val)

\* C14: the per-view values are never persisted: no call on _views changes the
\* file or _session, a file that changes becomes the encoding of _session (or
\* is left truncated by a failing write), and no value held in _views is in
\* the file.
C14_ViewValuesNotPersisted ==
    [][ /\ last'.op \in ViewCalls =>
              (file' = file /\ _session' = _session /\ last'.saves = 0)
        /\ file' # file => file' \in {Encoded(_session'), Blank}
        /\ \A u \in DOMAIN _views' : \A n \in DOMAIN _views'[u] :
              file'.kind = "json" => ~Occurs(file'.doc, _views'[u][n]) ]_vars

\* C14 witness: a save has written the file while two views hold a value, and
\* the file is the encoding of _session
C14_Witness ==
    /\ last.saves = 1
    /\ last.raised = None
    /\ Len(_session) > 0
    /\ file = Encoded(_session)
    /\ \A u \in ViewIds : u \in DOMAIN _views /\ <<"k">> \in DOMAIN _views[u]

\* C15: after a save_session that succeeded the file is the encoding of the
\* whole of _session: its top-level names are the keys of _session, those
\* outside the allow-list included, and nothing else of what the file held.
C15_SaveWritesWholeStore ==
    (last.saves = 1 /\ last.raised = None)
        => /\ file = Encoded(_session)
           /\ FileNames(file) = DictKeys(_session)

\* C15 witness: save_session has written a file whose only name is tmp, which
\* is outside the allow-list
C15_Witness ==
    /\ last.op = "save_session"
    /\ last.raised = None
    /\ DictKeys(_session) = {SKey(Str_tmp)}
    /\ FileNames(file) = {SKey(Str_tmp)}

\* C18: before build 4081 session_on_exit changes nothing: the file, _session
\* and _views are as they were, save_session is not run and nothing is raised,
\* so what was set without persist after the last write is not in the file.
C18_ExitNoOpOnOldBuilds ==
    [][ (last'.op = "session_on_exit" /\ _BUILD_VERSION < SaveOnExitBuild)
            => /\ file' = file
               /\ _session' = _session
               /\ _views' = _views
               /\ _storage' = _storage
               /\ last'.saves = 0
               /\ last'.raised = None ]_vars

\* C18 witness: session_on_exit has returned on build 4080 and the file,
\* written by an earlier set_session_value(..., persist=True), lacks the name
\* tmp that _session holds
C18_Witness ==
    /\ last.op = "session_on_exit"
    /\ _BUILD_VERSION < SaveOnExitBuild
    /\ file.kind = "json"
    /\ SKey(Str_macros) \in FileNames(file)
    /\ SKey(Str_bogus) \notin FileNames(file)
    /\ DictHas(_session, SKey(Str_tmp))
    /\ SKey(Str_tmp) \notin FileNames(file)

----
\* Further properties of load_session, on the record the file holds

\* The file holds a JSON object with at least one field
IsRecord(f) == f.kind = "json" /\ IsDict(f.doc) /\ Len(f.doc.dict) > 0

\* The value of the history field of the record (of a name that repeats, the
\* last field is the one the JSON object has)
HistoryOf(f) ==
    LET n == CHOOSE n \in 1..Len(f.doc.dict) :
                 /\ f.doc.dict[n].k = SKey(Str_history)
                 /\ \A m \in (n + 1)..Len(f.doc.dict) :
                       f.doc.dict[m].k # SKey(Str_history)
    IN f.doc.dict[n].v

\* The record has a history field that is a mapping with decimal-digit keys
HasDecimalHistory(f) ==
    /\ IsRecord(f)
    /\ SKey(Str_history) \in FileNames(f)
    /\ IsDict(HistoryOf(f))
    /\ \A k \in DictKeys(HistoryOf(f).dict) : IsDecimalStr(k)

\* C16: for every record that parses as a non-empty JSON object, after
\* load_session every name of the decoded record that is in the allow-list and
\* is not history is a key of _session with its decoded value, whatever the
\* other fields hold and in whatever order they come.
C16_LoadsEveryAllowedName ==
    (last.op = "load_session" /\ IsRecord(file) /\ IsDict(last.decoded))
        => \A i \in 1..Len(last.decoded.dict) :
              LET e == last.decoded.dict[i]
              IN (e.k \in AllowList /\ e.k # SKey(Str_history))
                    => DictHas(_session, e.k) /\ DictGet(_session, e.k) = e.v

\* C17, as stated: when the loaded record has a history field that is a
\* mapping with decimal-digit keys, after load_session the history storage
\* holds every entry of that mapping under its integer index and no other
\* entry, and history is a key of _session only if it was one before.
C17_HistoryReplacesStorage ==
    [][ (last'.op = "load_session" /\ IsDict(last'.decoded)
            /\ HasDecimalHistory(file))
          => LET h == HistoryOf(file).dict
             IN /\ \A i \in 1..Len(h) :
                      /\ DictHas(_storage', Promoted(h[i].k))
                      /\ IsPromotionOf(DictGet(_storage', Promoted(h[i].k)), h[i].v)
                /\ DictKeys(_storage') = {Promoted(h[i].k) : i \in 1..Len(h)}
                /\ DictHas(_session', SKey(Str_history))
                      => DictHas(_session, SKey(Str_history)) ]_vars

\* C17, amended: as above, but of the entries of the mapping whose keys denote
\* the same integer ("3" and "03") the storage holds the last one only.
C17_HistoryReplacesStorageLastWins ==
    [][ (last'.op = "load_session" /\ IsDict(last'.decoded)
            /\ HasDecimalHistory(file))
          => LET h == HistoryOf(file).dict
             IN /\ \A i \in 1..Len(h) :
                      (\A n \in (i + 1)..Len(h) : Promoted(h[n].k) # Promoted(h[i].k))
                         => /\ DictHas(_storage', Promoted(h[i].k))
                            /\ IsPromotionOf(DictGet(_storage', Promoted(h[i].k)),
                                             h[i].v)
                /\ DictKeys(_storage') = {Promoted(h[i].k) : i \in 1..Len(h)}
                /\ DictHas(_session', SKey(Str_history))
                      => DictHas(_session, SKey(Str_history)) ]_vars

\* C17 witness: load_session has loaded {"history": {"3": "x", "03": "y"}}
\* into a process that held the entry 9 of an earlier history: the storage is
\* {3: "y"}
C17_Witness ==
    /\ last.op = "load_session"
    /\ ~last.traced
    /\ DictHas(_session, SKey(Str_tmp))
    /\ HasDecimalHistory(file)
    /\ HistoryOf(file) = Json_3_03
    /\ _storage = <<Entry(IKey(3), StrV("y"))>>

\* C19: load_session merges and never clears: a key of _session that is not
\* both in the allow-list and a top-level name of the record keeps its value,
\* and when the record has no history field the history storage is as it was.
C19_LoadMerges ==
    [][ last'.op = "load_session" =>
            /\ \A k \in DictKeys(_session) :
                  k \notin (AllowList \cap FileNames(file))
                     => /\ DictHas(_session', k)
                        /\ DictGet(_session', k) = DictGet(_session, k)
            /\ SKey(Str_history) \notin FileNames(file) => _storage' = _storage ]_vars

\* C19 witness: load_session has loaded a record with a macros field and no
\* history field into a process that held tmp, macros and a history entry:
\* macros is the record's, tmp and the history entry are still there
C19_Witness ==
    /\ last.op = "load_session"
    /\ ~last.traced
    /\ IsRecord(file)
    /\ FileNames(file) = {SKey(Str_macros)}
    /\ DictHas(_session, SKey(Str_tmp))
    /\ DictGet(_session, SKey(Str_tmp)) = StrV("a")
    /\ DictGet(_session, SKey(Str_macros)) # Dict_sq
    /\ _storage = Storage_old

====
